---- MODULE Spec2Model ----
(***************************************************************************)
(* Model of verify_hmac_v1.py: one run of main() from the point where      *)
(* parser.parse_args() has returned the namespace (seed, hash, json).      *)
(*                                                                         *)
(* Strings are sequences of characters drawn from a small alphabet.  The   *)
(* character Surrogate stands for a lone UTF-16 surrogate code point: a    *)
(* Python str may hold one (json.loads accepts the escape \ud800, and      *)
(* sys.argv decodes undecodable bytes to U+DCxx) but str.encode("utf-8")   *)
(* raises UnicodeEncodeError on it.                                        *)
(*                                                                         *)
(* hmac.new(...).hexdigest() is library code; it is modelled by a small    *)
(* keyed digest with the same shape: a deterministic function of the key   *)
(* bytes and the message bytes that yields DigestLen lowercase hex digits. *)
(* stdout is assumed able to encode every line that is printed.            *)
(***************************************************************************)
EXTENDS Integers, Sequences, FiniteSets

VARIABLES seed, hash, doc,        \* args.seed, args.hash, contents at args.json
          pc,                     \* position in main / load_payload
          game, lp_payload,       \* locals of load_payload
          payload, expected, ok,  \* locals of main
          out, err, status,       \* stdout lines, stderr message, exit status
          load_result,            \* "pending" | "returned" | "failed"
          hmac_calls, compared    \* history: calls of compute_hmac_sha256_hex,
                                  \* and whether line 98 was evaluated

vars == <<seed, hash, doc, pc, game, lp_payload, payload, expected, ok,
          out, err, status, load_result, hmac_calls, compared>>

----------------------------------------------------------------------------
(* Bounds *)

MaxSeedLen == 1
MaxPayloadLen == 2
DigestLen == 2

----------------------------------------------------------------------------
(* Strings *)

Surrogate == "\\ud800"

SeedChars == {"s", "t", Surrogate}
PayloadChars == {"a", "A", " ", Surrogate}
HashChars == {"0", "a", "A", "b", "B"}
HexDigits == <<"0", "a", "b">>

RECURSIVE StringsUpTo(_, _)
StringsUpTo(chars, n) ==
    IF n = 0 THEN {<<>>}
    ELSE LET shorter == StringsUpTo(chars, n - 1)
         IN  shorter \cup {Append(s, c) : s \in {t \in shorter : Len(t) = n - 1}, c \in chars}

Seeds == StringsUpTo(SeedChars, MaxSeedLen)
PayloadStrings == StringsUpTo(PayloadChars, MaxPayloadLen)
HashArgs == StringsUpTo(HashChars, DigestLen)

\* str.lower(), per character
LowerChar(c) ==
    CASE c = "A" -> "a"
      [] c = "B" -> "b"
      [] OTHER -> c

\* str.lower()
Lower(s) == [i \in 1..Len(s) |-> LowerChar(s[i])]

\* s.encode("utf-8") raises UnicodeEncodeError iff s holds a surrogate
Encodable(s) == \A i \in 1..Len(s) : s[i] # Surrogate

ByteOf(c) ==
    CASE c = " " -> 32
      [] c = "0" -> 48
      [] c = "A" -> 65
      [] c = "B" -> 66
      [] c = "a" -> 97
      [] c = "b" -> 98
      [] c = "s" -> 115
      [] c = "t" -> 116
      [] OTHER -> 0

\* s.encode("utf-8") for an encodable s
Utf8(s) == [i \in 1..Len(s) |-> ByteOf(s[i])]

----------------------------------------------------------------------------
(* Crypto *)

RECURSIVE Absorb(_, _)
Absorb(h, bytes) ==
    IF bytes = <<>> THEN h
    ELSE Absorb((h * 31 + Head(bytes)) % 251, Tail(bytes))

\* hmac.new(key, msg, hashlib.sha256): inner hash of key and msg, then an
\* outer hash of key and the inner digest
HmacSha256(key, msg) ==
    Absorb(Absorb(92, key), <<Absorb(Absorb(54, key), msg)>>)

\* .hexdigest(): DigestLen lowercase hex digits
RECURSIVE HexDigest(_, _)
HexDigest(n, len) ==
    IF len = 0 THEN <<>>
    ELSE <<HexDigits[(n % Len(HexDigits)) + 1]>> \o HexDigest(n \div Len(HexDigits), len - 1)

compute_hmac_sha256_hex_FoldsCase(s, msg) ==
    HexDigest(HmacSha256(Utf8(s), Utf8(Lower(msg))), DigestLen)

compute_hmac_sha256_hex(s, msg) ==
    HexDigest(HmacSha256(Utf8(s), Utf8(msg)), DigestLen)

----------------------------------------------------------------------------
(* Documents and Python values *)

PyNone == [t |-> "None", s |-> <<>>]
PyStr(s) == [t |-> "str", s |-> s]
PyOther(t) == [t |-> t, s |-> <<>>]

\* values a JSON attribute can parse to; JSON null parses to None
NonStringValues == {PyOther("int"), PyOther("dict"), PyOther("list"), PyOther("bool"), PyNone}
AttrValues == {PyStr(s) : s \in PayloadStrings} \cup NonStringValues

\* top-level values json.loads can return
TopTypes == {"dict", "list", "str", "int", "None", "bool"}

NoGame == [t |-> "unset", has |-> FALSE, pval |-> PyNone, extra |-> FALSE]

\* file |-> "missing": read_text raises; "garbage": json.loads raises;
\* "json": parses to the value in top/has/pval/extra, where has says whether
\* the object has a "payload" attribute, pval is that attribute's value and
\* extra says whether the object has other attributes as well
Documents ==
    {[file |-> f, top |-> "unset", has |-> FALSE, pval |-> PyNone, extra |-> FALSE] :
        f \in {"missing", "garbage"}}
    \cup {[file |-> "json", top |-> t, has |-> FALSE, pval |-> PyNone, extra |-> FALSE] :
        t \in TopTypes \ {"dict"}}
    \cup {[file |-> "json", top |-> "dict", has |-> FALSE, pval |-> PyNone, extra |-> e] :
        e \in BOOLEAN}
    \cup {[file |-> "json", top |-> "dict", has |-> TRUE, pval |-> v, extra |-> e] :
        v \in AttrValues, e \in BOOLEAN}

\* json.loads(path.read_text(encoding="utf-8")) when it does not raise
JsonLoads(d) == [t |-> d.top, has |-> d.has, pval |-> d.pval, extra |-> d.extra]

\* game.get("payload") on a dict
DictGet(g) == IF g.has THEN g.pval ELSE PyNone

----------------------------------------------------------------------------
(* Process termination *)

NoStatus == 0 - 1

\* sys.exit(<message string>): message on stderr, exit status 1.
\* An exception that reaches the top level: traceback on stderr, status 1.
Terminate(msg) ==
    /\ err' = msg
    /\ status' = 1
    /\ pc' = "done"

----------------------------------------------------------------------------
Init ==
    /\ seed \in Seeds
    /\ hash \in HashArgs
    /\ doc \in Documents
    /\ pc = "read"
    /\ game = NoGame
    /\ lp_payload = PyNone
    /\ payload = <<>>
    /\ expected = <<>>
    /\ ok = FALSE
    /\ out = <<>>
    /\ err = "none"
    /\ status = NoStatus
    /\ load_result = "pending"
    /\ hmac_calls = <<>>
    /\ compared = FALSE

\* load_payload, lines 64-67
ReadJson ==
    /\ pc = "read"
    /\ IF doc.file # "json"
       THEN /\ Terminate("Failed to read JSON file")
            /\ load_result' = "failed"
            /\ UNCHANGED game
       ELSE /\ game' = JsonLoads(doc)
            /\ pc' = "get"
            /\ UNCHANGED <<err, status, load_result>>
    /\ UNCHANGED <<seed, hash, doc, lp_payload, payload, expected, ok, out,
                   hmac_calls, compared>>

\* load_payload, line 69
GetPayload ==
    /\ pc = "get"
    /\ IF game.t # "dict"
       THEN /\ Terminate("AttributeError")
            /\ load_result' = "failed"
            /\ UNCHANGED lp_payload
       ELSE /\ lp_payload' = DictGet(game)
            /\ pc' = "check_none"
            /\ UNCHANGED <<err, status, load_result>>
    /\ UNCHANGED <<seed, hash, doc, game, payload, expected, ok, out,
                   hmac_calls, compared>>

\* load_payload, lines 70-71
CheckNone ==
    /\ pc = "check_none"
    /\ IF lp_payload = PyNone
       THEN /\ Terminate("must contain payload field")
            /\ load_result' = "failed"
       ELSE /\ pc' = "check_str"
            /\ UNCHANGED <<err, status, load_result>>
    /\ UNCHANGED <<seed, hash, doc, game, lp_payload, payload, expected, ok, out,
                   hmac_calls, compared>>

\* the type check without its sys.exit: the message is reported and the
\* function returns all the same
CheckStr_NoExit ==
    /\ pc = "check_str"
    /\ IF lp_payload.t # "str"
       THEN /\ err' = "payload field must be a string"
            /\ load_result' = "failed"
            /\ payload' = lp_payload.s
            /\ pc' = "compute"
            /\ UNCHANGED status
       ELSE /\ payload' = lp_payload.s
            /\ load_result' = "returned"
            /\ pc' = "compute"
            /\ UNCHANGED <<err, status>>
    /\ UNCHANGED <<seed, hash, doc, game, lp_payload, expected, ok, out,
                   hmac_calls, compared>>

\* load_payload, lines 72-75, and the assignment of main, line 92
CheckStr ==
    /\ pc = "check_str"
    /\ IF lp_payload.t # "str"
       THEN /\ Terminate("payload field must be a string")
            /\ load_result' = "failed"
            /\ UNCHANGED payload
       ELSE /\ payload' = lp_payload.s
            /\ load_result' = "returned"
            /\ pc' = "compute"
            /\ UNCHANGED <<err, status>>
    /\ UNCHANGED <<seed, hash, doc, game, lp_payload, expected, ok, out,
                   hmac_calls, compared>>

\* main, line 95, with compute_hmac_sha256_hex, line 44
Compute ==
    /\ pc = "compute"
    /\ hmac_calls' = Append(hmac_calls, <<seed, payload>>)
    /\ IF Encodable(seed) /\ Encodable(payload)
       THEN /\ expected' = compute_hmac_sha256_hex(seed, payload)
            /\ pc' = "compare"
            /\ UNCHANGED <<err, status>>
       ELSE /\ Terminate("UnicodeEncodeError")
            /\ UNCHANGED expected
    /\ UNCHANGED <<seed, hash, doc, game, lp_payload, payload, ok, out,
                   load_result, compared>>

Matches_NoLower(e, h) == e = h

Matches_LowerExpectedOnly(e, h) == Lower(e) = h

\* main, line 98
Matches(e, h) == Lower(e) = Lower(h)

Compare ==
    /\ pc = "compare"
    /\ ok' = Matches(expected, hash)
    /\ compared' = TRUE
    /\ pc' = "print_header"
    /\ UNCHANGED <<seed, hash, doc, game, lp_payload, payload, expected, out,
                   err, status, load_result, hmac_calls>>

Line(label, text) == [label |-> label, text |-> text]

Emit(line, next) ==
    /\ out' = Append(out, line)
    /\ pc' = next
    /\ UNCHANGED <<seed, hash, doc, game, lp_payload, payload, expected, ok,
                   err, status, load_result, hmac_calls, compared>>

\* main, line 101
EmitHeader ==
    /\ pc = "print_header"
    /\ Emit(Line("=== Provably Fair Verification ===", <<>>), "print_message")

\* main, line 102
EmitMessage ==
    /\ pc = "print_message"
    /\ Emit(Line("Message :", payload), "print_computed")

\* main, line 103
EmitComputed ==
    /\ pc = "print_computed"
    /\ Emit(Line("Computed:", expected), "print_provided")

\* main, line 104
EmitProvided ==
    /\ pc = "print_provided"
    /\ Emit(Line("Provided:", hash), "print_result")

ResultMarker(b) == IF b THEN <<"VALID">> ELSE <<"INVALID">>

\* main, line 105
EmitResult ==
    /\ pc = "print_result"
    /\ Emit(Line("Result  :", ResultMarker(ok)), "exit")

ExitStatus(b) == IF b THEN 0 ELSE 1

\* main, line 107
Exit ==
    /\ pc = "exit"
    /\ status' = ExitStatus(ok)
    /\ pc' = "done"
    /\ UNCHANGED <<seed, hash, doc, game, lp_payload, payload, expected, ok, out,
                   err, load_result, hmac_calls, compared>>

Next ==
    \/ ReadJson
    \/ GetPayload
    \/ CheckNone
    \/ CheckStr
    \/ Compute
    \/ Compare
    \/ EmitHeader
    \/ EmitMessage
    \/ EmitComputed
    \/ EmitProvided
    \/ EmitResult
    \/ Exit

Spec == Init /\ [][Next]_vars

\* main, lines 95-107, as a function of its inputs once the payload is
\* loaded and encodable: the exit status of the run
Verdict(s, p, h) == ExitStatus(Matches(compute_hmac_sha256_hex(s, p), h))

----------------------------------------------------------------------------
(* Vocabulary of the properties *)

Finished == pc = "done"

\* the document is a JSON object that has a "payload" attribute
HasPayloadAttr == doc.file = "json" /\ doc.top = "dict" /\ doc.has

\* the document parsed as JSON
Parsed == doc.file = "json"

UpperChar(c) ==
    CASE c = "a" -> "A"
      [] c = "b" -> "B"
      [] OTHER -> c

Upper(s) == [i \in 1..Len(s) |-> UpperChar(s[i])]

\* the strings that differ from h only in the case of their letters
Recasings(h) ==
    {h2 \in HashArgs : Len(h2) = Len(h) /\ \A i \in 1..Len(h) : UpperChar(h2[i]) = UpperChar(h[i])}

\* the report of section 6 for payload p, commitment e, argument h, verdict b
Report(p, e, h, b) ==
    << Line("=== Provably Fair Verification ===", <<>>),
       Line("Message :", p),
       Line("Computed:", e),
       Line("Provided:", h),
       Line("Result  :", IF b THEN <<"VALID">> ELSE <<"INVALID">>) >>

LoadMessages ==
    {"Failed to read JSON file", "must contain payload field", "payload field must be a string"}

----------------------------------------------------------------------------
(* C1: a finished run whose load_payload returned exits with status 0 if    *)
(* and only if the comparison was made and the computed commitment equals   *)
(* the --hash argument after both are lowercased, and with status 1         *)
(* otherwise; a run that reached the comparison ends with 0 or 1.           *)
C1_ExitIffMatch ==
    (Finished /\ load_result = "returned") =>
        /\ status = 0 <=> (compared /\ Lower(expected) = Lower(hash))
        /\ status = 1 <=> ~(compared /\ Lower(expected) = Lower(hash))
        /\ status \in {0, 1}

C1_Witness ==
    /\ Finished /\ load_result = "returned" /\ compared
    /\ status = 0 /\ hash # expected

(* C2: a load failure ends with a non-zero status other than 1, and status  *)
(* 1 comes only from a run that loaded, computed, printed the report and    *)
(* found a mismatch.                                                        *)
C2_LoadFailureStatusDistinct ==
    Finished =>
        /\ load_result = "failed" => status \notin {0, 1}
        /\ status = 1 =>
              /\ load_result = "returned"
              /\ Len(hmac_calls) = 1
              /\ compared /\ ~ok
              /\ Len(out) = 5

(* C3: in a run where load_payload fails, compute_hmac_sha256_hex is never  *)
(* invoked, the comparison is never made and no report line is printed.     *)
C3_NoWorkAfterLoadFailure ==
    load_result = "failed" =>
        /\ hmac_calls = <<>>
        /\ ~compared
        /\ out = <<>>
        /\ pc = "done"

C3_Witness ==
    /\ Finished /\ load_result = "failed"
    /\ err = "payload field must be a string"

(* C4: for a document whose payload attribute is present with a value that  *)
(* is not a string (number, object, array, boolean, null), the run ends     *)
(* with the must-be-a-string message, not the missing-field message, and    *)
(* nothing is hashed.                                                       *)
C4_NonStringReportsType ==
    (Finished /\ HasPayloadAttr /\ doc.pval.t # "str") =>
        /\ err = "payload field must be a string"
        /\ hmac_calls = <<>>

(* C5: for a parsed document with no payload attribute the run ends with    *)
(* the missing-field message and a non-zero status and never compares; and  *)
(* the missing-field message is reported only when the attribute is absent. *)
C5_MissingFieldIffAbsent ==
    /\ (Finished /\ Parsed /\ ~HasPayloadAttr) =>
          /\ err = "must contain payload field"
          /\ status # 0
          /\ ~compared
    /\ err = "must contain payload field" => ~HasPayloadAttr

(* C6: the verdict does not depend on the letter case of --hash: the exit   *)
(* status and Result line of a run that compared are those that any         *)
(* re-casing of the argument yields, and the uppercase form of the computed *)
(* commitment ends the run VALID with status 0.                             *)
C6_CaseInvariantVerdict ==
    (Finished /\ compared) =>
        /\ \A h2 \in Recasings(hash) :
              /\ Verdict(seed, payload, h2) = status
              /\ out[5].text = (IF Verdict(seed, payload, h2) = 0 THEN <<"VALID">> ELSE <<"INVALID">>)
        /\ hash = Upper(expected) => (status = 0 /\ out[5].text = <<"VALID">>)

C6_Witness ==
    /\ Finished /\ compared
    /\ hash = Upper(expected) /\ hash # expected
    /\ status = 0

(* C7: a finished run whose load_payload returned has printed exactly the   *)
(* five report lines in order, with the loaded payload, the computed        *)
(* commitment, the --hash argument as supplied, and VALID iff status 0,     *)
(* INVALID iff status 1.                                                    *)
C7_FullReportAfterLoad ==
    (Finished /\ load_result = "returned") =>
        /\ status \in {0, 1}
        /\ out = Report(doc.pval.s, expected, hash, status = 0)

(* C8: the payload is used as stored: load_payload returns the attribute's  *)
(* string unchanged, that string is what compute_hmac_sha256_hex is called  *)
(* with and what the Message line shows, the commitment is the digest of    *)
(* exactly its bytes, and the other attributes play no part.                *)
C8_PayloadUsedAsStored ==
    /\ load_result = "returned" => payload = doc.pval.s
    /\ \A i \in 1..Len(hmac_calls) : hmac_calls[i] = <<seed, doc.pval.s>>
    /\ Len(out) >= 2 => out[2] = Line("Message :", doc.pval.s)
    /\ compared => expected = HexDigest(HmacSha256(Utf8(seed), Utf8(doc.pval.s)), DigestLen)

C8_Witness ==
    /\ Finished /\ compared /\ doc.extra
    /\ Len(payload) = MaxPayloadLen
    /\ payload[1] = " " /\ payload[Len(payload)] = "A"

(* C10: every finished run ended in one of three ways: VALID report with    *)
(* status 0, INVALID report with status 1, or one of the three fatal        *)
(* messages of load_payload; none ended in an unhandled exception.          *)
C10_ThreeOutcomes ==
    Finished =>
        \/ /\ err = "none" /\ status = 0
           /\ Len(out) = 5 /\ out[5].text = <<"VALID">>
        \/ /\ err = "none" /\ status = 1
           /\ Len(out) = 5 /\ out[5].text = <<"INVALID">>
        \/ /\ err \in LoadMessages /\ out = <<>>
====
